---- MODULE Spec2Model ----
(***************************************************************************)
(* Model of auto_rx.py: the search loop of __main__, the decoder           *)
(* supervisors decode_rs92 / decode_rs41, the telemetry parser             *)
(* process_rs_line and the upload thread internet_push_thread, connected   *)
(* by the one-slot Queue internet_push_queue.                              *)
(***************************************************************************)
EXTENDS Integers, Sequences, FiniteSets, TLC

\* ------------------------------------------------------------------------
\* Bounds of the model.
\* ------------------------------------------------------------------------
MaxAttempts == 2
MaxPeaks == 2
MaxLines == 3

\* ------------------------------------------------------------------------
\* Program constants.
\* ------------------------------------------------------------------------
FixedBackoff == 10
\* Queue.Queue(1)
QueueMaxsize == 1
\* len(params) < 11
MinFields == 11
\* exit statuses of rs_detect that classify a sonde
RS41Code == 3
RS92Code == 4
\* the value run_rtl_power compares os.system's result with
RtlPowerFailCode == 1

\* Station configuration values that are not varied (station.cfg).
search_delay == 7
upload_rate == 2
quantization == 5

VARIABLES
    \* __main__
    mainPc, cfg_search_attempts, SEARCH_ATTEMPTS, sonde_freq, sonde_type,
    peaks, peak_frequencies, forIdx, tried, nScans, scanStatus, lastSleep,
    exitCode, passLog, classifierUsed,
    \* decode_rs92 / decode_rs41
    decPc, ephemeris, almanac, fetchLog, launched, decodeSource, stream,
    linesRead, line, readFault, killed, decReturn,
    \* internet_push_queue and its history
    internet_push_queue, putLog, taken,
    \* internet_push_thread
    INTERNET_PUSH_RUNNING, dispPc, data, dispLog

mainVars == <<mainPc, cfg_search_attempts, SEARCH_ATTEMPTS, sonde_freq, sonde_type,
              peaks, peak_frequencies, forIdx, tried, nScans, scanStatus, lastSleep,
              exitCode, passLog, classifierUsed>>
decVars == <<decPc, ephemeris, almanac, fetchLog, launched, decodeSource, stream,
             linesRead, line, readFault, killed, decReturn>>
queueVars == <<internet_push_queue, putLog, taken>>
dispVars == <<INTERNET_PUSH_RUNNING, dispPc, data, dispLog>>
vars == <<mainVars, decVars, queueVars, dispVars>>

None == "None"

\* ------------------------------------------------------------------------
\* Helpers on sequences.
\* ------------------------------------------------------------------------
RECURSIVE Reverse(_)
Reverse(s) == IF s = <<>> THEN <<>> ELSE Append(Reverse(Tail(s)), Head(s))

\* np.argsort: the indices of s in ascending order of value (selection of
\* the smallest remaining index by value; values are distinct in the inputs).
RECURSIVE ArgSortFrom(_, _)
ArgSortFrom(s, left) ==
    IF left = {} THEN <<>>
    ELSE LET i == CHOOSE j \in left : \A k \in left : s[j] <= s[k]
         IN  <<i>> \o ArgSortFrom(s, left \ {i})

argsort(s) == ArgSortFrom(s, DOMAIN s)

\* ------------------------------------------------------------------------
\* os.system on POSIX returns the 16-bit wait status: the exit code in the
\* high byte, the terminating signal in the low byte.
\* ------------------------------------------------------------------------
os_system(st) == IF st.sig # 0 THEN st.sig ELSE st.code * 256

\* How the external scan command can end: exit 0, exit 1 (rtl_power
\* failed), or the shell killed by signal 1.
NoStatus == [code |-> 0, sig |-> 0]
ScanEndings == {[code |-> 0, sig |-> 0], [code |-> 1, sig |-> 0], [code |-> 0, sig |-> 1]}

\* How the detection pipeline can end: rs_detect exit codes.
DetectEndings == {[code |-> 0, sig |-> 0], [code |-> RS41Code, sig |-> 0],
                  [code |-> RS92Code, sig |-> 0]}

\* The scan tool reported a failure: it did not exit with status 0.
ToolFailed(st) == st.code # 0 \/ st.sig # 0

\* run_rtl_power: TRUE when the call ends the process with sys.exit(1).
run_rtl_power_exits(st) == os_system(st) = RtlPowerFailCode

\* detect_sonde: ret_code >> 8 mapped to a type.
detect_sonde(st) ==
    LET ret_code == os_system(st) \div 256
    IN  IF ret_code = RS41Code THEN "RS41"
        ELSE IF ret_code = RS92Code THEN "RS92"
        ELSE None

\* np.round(x): round half to even, for x = f / q with integers f >= 0, q > 0.
np_round(f, q) ==
    LET d == f \div q
        r == f % q
    IN  IF 2 * r < q THEN d
        ELSE IF 2 * r > q THEN d + 1
        ELSE IF d % 2 = 0 THEN d ELSE d + 1

\* quantize_freq on one frequency and on a list.
quantize_one(f, q) == np_round(f, q) * q
quantize_freq(freq_list, q) == [i \in DOMAIN freq_list |-> quantize_one(freq_list[i], q)]

\* Raw peak frequencies a scan can report (ascending, as freq[] is).
RawFreqs == <<11, 12, 18>>

\* The peaks one pass can find: up to MaxPeaks samples in index order, each
\* [f, p] with distinct powers (detect_peaks output, peak_freqs/peak_powers).
PeakInputs ==
    {<<>>} \cup
    UNION { { s \in [1..n -> [f : 1..Len(RawFreqs), p : 1..n]] :
                /\ \A i \in 1..n, j \in 1..n : i < j => s[i].f < s[j].f
                /\ \A i \in 1..n, j \in 1..n : i # j => s[i].p # s[j].p }
            : n \in 1..MaxPeaks }

\* The ranking without the final [::-1]: ascending power.
RankedFreqsAscending(pk) ==
    LET peak_powers == [i \in DOMAIN pk |-> pk[i].p]
        peak_freqs == [i \in DOMAIN pk |-> RawFreqs[pk[i].f]]
        order == argsort(peak_powers)
    IN  [i \in DOMAIN order |-> peak_freqs[order[i]]]

\* Lines 360-365: rank by descending power, then quantize.
RankedFreqs(pk) ==
    LET peak_powers == [i \in DOMAIN pk |-> pk[i].p]
        peak_freqs == [i \in DOMAIN pk |-> RawFreqs[pk[i].f]]
        order == Reverse(argsort(peak_powers))
    IN  [i \in DOMAIN order |-> peak_freqs[order[i]]]

RankedQuantized(pk) == quantize_freq(RankedFreqs(pk), quantization)

\* ------------------------------------------------------------------------
\* Telemetry lines and process_rs_line.  A line is the list of its
\* comma-separated fields (line.split(',')).
\* ------------------------------------------------------------------------
\* float(): the tokens Python parses as a float, with their value * 10^5.
FloatTable == [t \in {"-34.72471", "138.69178", "-263.83", "0.1", "265.0", "0.3", "1.5"} |->
                 CASE t = "-34.72471" -> -3472471
                   [] t = "138.69178" -> 13869178
                   [] t = "-263.83" -> -26383000
                   [] t = "0.1" -> 10000
                   [] t = "265.0" -> 26500000
                   [] t = "0.3" -> 30000
                   [] t = "1.5" -> 150000]

\* int(): the tokens Python parses as an integer are the decimal numerals.
IntRange == 0..(MaxLines + 1)
int_ok(t) == \E n \in IntRange : ToString(n) = t
int_of(t) == CHOOSE n \in IntRange : ToString(n) = t

float_ok(t) == t \in DOMAIN FloatTable \/ int_ok(t)
float_of(t) == IF t \in DOMAIN FloatTable THEN FloatTable[t] ELSE int_of(t) * 100000

NoneRec == [none |-> TRUE]

\* A parser that puts 0.0 in place of a float field it cannot convert.
process_rs_line_lenient(ln) ==
    LET fl(t) == IF float_ok(t) THEN float_of(t) ELSE 0
    IN  IF Len(ln) < MinFields THEN NoneRec
        ELSE IF ~int_ok(ln[1]) THEN NoneRec
        ELSE [frame |-> int_of(ln[1]), id |-> ln[2], date |-> ln[3], time |-> ln[4],
              lat |-> fl(ln[5]), lon |-> fl(ln[6]), alt |-> fl(ln[7]),
              vel_h |-> fl(ln[8]), heading |-> fl(ln[9]),
              vel_v |-> fl(ln[10]), crc |-> ln[11],
              temp |-> 0, humidity |-> 0]

\* process_rs_line: None for a short line or a failed coercion, else the frame.
process_rs_line(ln) ==
    IF Len(ln) < MinFields THEN NoneRec
    ELSE IF ~int_ok(ln[1]) THEN NoneRec
    ELSE IF \E i \in 5..10 : ~float_ok(ln[i]) THEN NoneRec
    ELSE [frame |-> int_of(ln[1]), id |-> ln[2], date |-> ln[3], time |-> ln[4],
          lat |-> float_of(ln[5]), lon |-> float_of(ln[6]), alt |-> float_of(ln[7]),
          vel_h |-> float_of(ln[8]), heading |-> float_of(ln[9]),
          vel_v |-> float_of(ln[10]), crc |-> ln[11],
          temp |-> 0, humidity |-> 0]

\* The lines the external decoder can emit as its k-th line.
GoodLine(k) == <<ToString(k), "M3553150", "2017-04-30", "05:44:40.460", "-34.72471",
                 "138.69178", "-263.83", "0.1", "265.0", "0.3", "OK">>
ShortLine(k) == SubSeq(GoodLine(k), 1, MinFields - 1)
BadFloatLine(k) == [GoodLine(k) EXCEPT ![7] = "abc"]
BadIntLine(k) == [GoodLine(k) EXCEPT ![1] = "1.5"]
LinesAt(k) == {GoodLine(k), ShortLine(k), BadFloatLine(k), BadIntLine(k)}

\* data['freq'] = "%.3f MHz" % (frequency/1e6); data['type'] = <type>
Tagged(d, frequency, type) ==
    [frame |-> d.frame, id |-> d.id, date |-> d.date, time |-> d.time,
     lat |-> d.lat, lon |-> d.lon, alt |-> d.alt, vel_h |-> d.vel_h,
     heading |-> d.heading, vel_v |-> d.vel_v, crc |-> d.crc,
     temp |-> d.temp, humidity |-> d.humidity,
     freq |-> <<frequency, "MHz">>, type |-> type]

\* ------------------------------------------------------------------------
\* Queue.Queue(1): put_nowait raises Full when the slot is taken,
\* get_nowait raises Empty when there is nothing.
\* ------------------------------------------------------------------------
\* A put that replaces the pending record instead of raising Full.
put_nowait_overwrite(q, item) == [q |-> <<item>>, raised |-> "no"]

\* A put on a queue without a size limit.
put_nowait_unbounded(q, item) == [q |-> Append(q, item), raised |-> "no"]

put_nowait(q, item) ==
    IF Len(q) >= QueueMaxsize
    THEN [q |-> q, raised |-> "Full"]
    ELSE [q |-> Append(q, item), raised |-> "no"]

\* A get that hands out the pending record without removing it.
get_nowait_peek(q) ==
    IF Len(q) = 0
    THEN [q |-> q, raised |-> "Empty", item |-> [none |-> TRUE]]
    ELSE [q |-> q, raised |-> "no", item |-> Head(q)]

get_nowait(q) ==
    IF Len(q) = 0
    THEN [q |-> q, raised |-> "Empty", item |-> NoneRec]
    ELSE [q |-> Tail(q), raised |-> "no", item |-> Head(q)]

\* ------------------------------------------------------------------------
\* Initial state: module globals and the search variables of __main__.
\* ------------------------------------------------------------------------
Init ==
    /\ cfg_search_attempts \in (0 - 1)..MaxAttempts
    /\ SEARCH_ATTEMPTS = cfg_search_attempts
    /\ mainPc = "while"
    /\ sonde_freq = 0
    /\ sonde_type = None
    /\ peaks = <<>>
    /\ peak_frequencies = <<>>
    /\ forIdx = 1
    /\ tried = <<>>
    /\ nScans = 0
    /\ scanStatus = NoStatus
    /\ lastSleep = 0
    /\ exitCode = 0 - 1
    /\ passLog = {}
    /\ classifierUsed = FALSE
    /\ decPc = "idle"
    /\ ephemeris = None
    /\ almanac = None
    /\ fetchLog = <<>>
    /\ launched = FALSE
    /\ decodeSource = <<>>
    /\ stream = "none"
    /\ linesRead = 0
    /\ line = <<>>
    /\ readFault = FALSE
    /\ killed = FALSE
    /\ decReturn = "running"
    /\ internet_push_queue = <<>>
    /\ putLog = <<>>
    /\ taken = <<>>
    /\ INTERNET_PUSH_RUNNING = TRUE
    /\ dispPc = "idle"
    /\ data = NoneRec
    /\ dispLog = "none"

\* ------------------------------------------------------------------------
\* __main__: the search loop.
\* ------------------------------------------------------------------------
\* The loop test off by one: one pass too many.
while_test_inclusive(attempts) == attempts >= 0

\* SEARCH_ATTEMPTS>0
while_test(attempts) == attempts > 0

\* while SEARCH_ATTEMPTS>0:
MainWhile ==
    /\ mainPc = "while"
    /\ mainPc' = IF while_test(SEARCH_ATTEMPTS) THEN "scan" ELSE "check"
    /\ UNCHANGED <<cfg_search_attempts, SEARCH_ATTEMPTS, sonde_freq, sonde_type, peaks,
                   peak_frequencies, forIdx, tried, nScans, scanStatus, lastSleep, exitCode>>
    /\ UNCHANGED <<passLog, classifierUsed>>
    /\ UNCHANGED <<decVars, queueVars, dispVars>>

\* run_rtl_power(...): ret_code = os.system(rtl_power_cmd)
MainScan ==
    /\ mainPc = "scan"
    /\ \E st \in ScanEndings : scanStatus' = st
    /\ nScans' = nScans + 1
    /\ mainPc' = "scanned"
    /\ UNCHANGED <<cfg_search_attempts, SEARCH_ATTEMPTS, sonde_freq, sonde_type, peaks,
                   peak_frequencies, forIdx, tried, lastSleep, exitCode>>
    /\ UNCHANGED <<passLog, classifierUsed>>
    /\ UNCHANGED <<decVars, queueVars, dispVars>>

\* if ret_code == 1: sys.exit(1) / else: return True (the status is a
\* local of run_rtl_power and is gone when it returns).
MainScanCheck ==
    /\ mainPc = "scanned"
    /\ IF run_rtl_power_exits(scanStatus)
       THEN /\ mainPc' = "exit"
            /\ exitCode' = 1
            /\ UNCHANGED scanStatus
       ELSE /\ mainPc' = "read"
            /\ scanStatus' = NoStatus
            /\ UNCHANGED exitCode
    /\ UNCHANGED <<cfg_search_attempts, SEARCH_ATTEMPTS, sonde_freq, sonde_type, peaks,
                   peak_frequencies, forIdx, tried, nScans, lastSleep>>
    /\ UNCHANGED <<passLog, classifierUsed>>
    /\ UNCHANGED <<decVars, queueVars, dispVars>>

\* read_rtl_power raised: SEARCH_ATTEMPTS -= 1; time.sleep(10); continue
MainReadFail ==
    /\ mainPc = "read"
    /\ SEARCH_ATTEMPTS' = SEARCH_ATTEMPTS - 1
    /\ lastSleep' = FixedBackoff
    /\ mainPc' = "while"
    /\ UNCHANGED <<cfg_search_attempts, sonde_freq, sonde_type, peaks, peak_frequencies,
                   forIdx, tried, nScans, scanStatus, exitCode>>
    /\ passLog' = passLog \cup {"readfail"}
    /\ UNCHANGED classifierUsed
    /\ UNCHANGED <<decVars, queueVars, dispVars>>

\* A zero-peak pass that sleeps the configured search delay.
MainDetectPeaksConfiguredDelay ==
    /\ mainPc = "read"
    /\ \E pk \in PeakInputs :
        /\ peaks' = pk
        /\ IF Len(pk) = 0
           THEN /\ SEARCH_ATTEMPTS' = SEARCH_ATTEMPTS - 1
                /\ lastSleep' = search_delay
                /\ mainPc' = "while"
                /\ passLog' = passLog \cup {"nopeaks"}
                /\ UNCHANGED <<peak_frequencies, forIdx, tried>>
           ELSE /\ peak_frequencies' = RankedQuantized(pk)
                /\ forIdx' = 1
                /\ tried' = <<>>
                /\ mainPc' = "for"
                /\ passLog' = passLog \cup {"peaks"}
                /\ UNCHANGED <<SEARCH_ATTEMPTS, lastSleep>>
    /\ UNCHANGED <<cfg_search_attempts, sonde_freq, sonde_type, nScans, scanStatus, exitCode>>
    /\ UNCHANGED classifierUsed
    /\ UNCHANGED <<decVars, queueVars, dispVars>>

\* read_rtl_power succeeded; detect_peaks, then either "No peaks found on
\* this pass" or the ranked, quantized candidate list.
MainDetectPeaks ==
    /\ mainPc = "read"
    /\ \E pk \in PeakInputs :
        /\ peaks' = pk
        /\ IF Len(pk) = 0
           THEN /\ SEARCH_ATTEMPTS' = SEARCH_ATTEMPTS - 1
                /\ lastSleep' = FixedBackoff
                /\ mainPc' = "while"
                /\ passLog' = passLog \cup {"nopeaks"}
                /\ UNCHANGED <<peak_frequencies, forIdx, tried>>
           ELSE /\ peak_frequencies' = RankedQuantized(pk)
                /\ forIdx' = 1
                /\ tried' = <<>>
                /\ mainPc' = "for"
                /\ passLog' = passLog \cup {"peaks"}
                /\ UNCHANGED <<SEARCH_ATTEMPTS, lastSleep>>
    /\ UNCHANGED <<cfg_search_attempts, sonde_freq, sonde_type, nScans, scanStatus, exitCode>>
    /\ UNCHANGED classifierUsed
    /\ UNCHANGED <<decVars, queueVars, dispVars>>

\* for freq in peak_frequencies: detected = detect_sonde(freq, ...)
MainFor ==
    /\ mainPc = "for"
    /\ IF forIdx > Len(peak_frequencies)
       THEN /\ mainPc' = "afterfor"
            /\ UNCHANGED <<sonde_freq, sonde_type, forIdx, tried, classifierUsed>>
       ELSE \E st \in DetectEndings :
            LET freq == peak_frequencies[forIdx]
                detected == detect_sonde(st)
            IN  /\ tried' = Append(tried, [f |-> freq, t |-> detected])
                /\ classifierUsed' = TRUE
                /\ IF detected # None
                   THEN /\ sonde_freq' = freq
                        /\ sonde_type' = detected
                        /\ mainPc' = "afterfor"
                        /\ UNCHANGED forIdx
                   ELSE /\ forIdx' = forIdx + 1
                        /\ mainPc' = "for"
                        /\ UNCHANGED <<sonde_freq, sonde_type>>
    /\ UNCHANGED <<cfg_search_attempts, SEARCH_ATTEMPTS, peaks, peak_frequencies, nScans,
                   scanStatus, lastSleep, exitCode>>
    /\ UNCHANGED passLog
    /\ UNCHANGED <<decVars, queueVars, dispVars>>

\* A pass without a classified candidate that sleeps the fixed ten seconds.
MainAfterForFixedBackoff ==
    /\ mainPc = "afterfor"
    /\ IF sonde_type # None
       THEN /\ mainPc' = "check"
            /\ UNCHANGED <<SEARCH_ATTEMPTS, lastSleep>>
       ELSE /\ SEARCH_ATTEMPTS' = SEARCH_ATTEMPTS - 1
            /\ lastSleep' = FixedBackoff
            /\ mainPc' = "while"
    /\ peaks' = <<>>
    /\ peak_frequencies' = <<>>
    /\ forIdx' = 1
    /\ tried' = <<>>
    /\ UNCHANGED <<cfg_search_attempts, sonde_freq, sonde_type, nScans, scanStatus, exitCode>>
    /\ UNCHANGED <<passLog, classifierUsed>>
    /\ UNCHANGED <<decVars, queueVars, dispVars>>

\* if sonde_type != None: break / else: SEARCH_ATTEMPTS -= 1; sleep(search_delay)
\* The candidates of this pass are not read again: the next pass assigns
\* them afresh and nothing after the loop uses them.
MainAfterFor ==
    /\ mainPc = "afterfor"
    /\ IF sonde_type # None
       THEN /\ mainPc' = "check"
            /\ UNCHANGED <<SEARCH_ATTEMPTS, lastSleep>>
       ELSE /\ SEARCH_ATTEMPTS' = SEARCH_ATTEMPTS - 1
            /\ lastSleep' = search_delay
            /\ mainPc' = "while"
    /\ peaks' = <<>>
    /\ peak_frequencies' = <<>>
    /\ forIdx' = 1
    /\ tried' = <<>>
    /\ UNCHANGED <<cfg_search_attempts, sonde_freq, sonde_type, nScans, scanStatus, exitCode>>
    /\ UNCHANGED <<passLog, classifierUsed>>
    /\ UNCHANGED <<decVars, queueVars, dispVars>>

\* An exhaustion test that also fires with one attempt left.
exhausted_test_off_by_one(attempts) == attempts <= 1

\* An exhaustion test that misses the budget of exactly zero.
exhausted_test_negative(attempts) == attempts < 0

\* SEARCH_ATTEMPTS == 0
exhausted_test(attempts) == attempts = 0

\* if SEARCH_ATTEMPTS == 0: sys.exit(0)
MainCheck ==
    /\ mainPc = "check"
    /\ IF exhausted_test(SEARCH_ATTEMPTS)
       THEN mainPc' = "exit" /\ exitCode' = 0
       ELSE mainPc' = "start" /\ exitCode' = exitCode
    /\ UNCHANGED <<cfg_search_attempts, SEARCH_ATTEMPTS, sonde_freq, sonde_type, peaks,
                   peak_frequencies, forIdx, tried, nScans, scanStatus, lastSleep>>
    /\ UNCHANGED <<passLog, classifierUsed>>
    /\ UNCHANGED <<decVars, queueVars, dispVars>>

\* t.start(); then the call of decode_rs92 / decode_rs41 (or neither).
MainStart ==
    /\ mainPc = "start"
    /\ dispPc' = "while"
    /\ mainPc' = "decode"
    /\ decPc' = IF sonde_type = "RS92" THEN "ephemeris"
                ELSE IF sonde_type = "RS41" THEN "launch"
                ELSE "returned"
    /\ UNCHANGED <<cfg_search_attempts, SEARCH_ATTEMPTS, sonde_freq, sonde_type, peaks,
                   peak_frequencies, forIdx, tried, nScans, scanStatus, lastSleep, exitCode>>
    /\ UNCHANGED <<ephemeris, almanac, fetchLog, launched, decodeSource, stream,
                   linesRead, line, readFault, killed, decReturn>>
    /\ UNCHANGED <<queueVars, INTERNET_PUSH_RUNNING, data, dispLog>>
    /\ UNCHANGED <<passLog, classifierUsed>>

\* A main thread that ends without clearing the flag.
MainStopNoClear ==
    /\ mainPc = "decode"
    /\ decPc = "returned"
    /\ mainPc' = "end"
    /\ UNCHANGED <<cfg_search_attempts, SEARCH_ATTEMPTS, sonde_freq, sonde_type, peaks,
                   peak_frequencies, forIdx, tried, nScans, scanStatus, lastSleep, exitCode>>
    /\ UNCHANGED <<passLog, classifierUsed>>
    /\ UNCHANGED <<decVars, queueVars, dispVars>>

\* INTERNET_PUSH_RUNNING = False
MainStop ==
    /\ mainPc = "decode"
    /\ decPc = "returned"
    /\ INTERNET_PUSH_RUNNING' = FALSE
    /\ mainPc' = "end"
    /\ UNCHANGED <<cfg_search_attempts, SEARCH_ATTEMPTS, sonde_freq, sonde_type, peaks,
                   peak_frequencies, forIdx, tried, nScans, scanStatus, lastSleep, exitCode>>
    /\ UNCHANGED <<decVars, queueVars, dispPc, data, dispLog>>
    /\ UNCHANGED <<passLog, classifierUsed>>

\* ------------------------------------------------------------------------
\* decode_rs92 / decode_rs41 (run on the main thread).
\* ------------------------------------------------------------------------
\* if ephemeris == None: ephemeris = get_ephemeris(destination="ephemeris.dat")
DecFetchEphemeris ==
    /\ mainPc = "decode"
    /\ decPc = "ephemeris"
    /\ \E got \in {None, "ephemeris.dat"} :
        /\ ephemeris' = got
        /\ decPc' = IF got = None THEN "almanac" ELSE "launch"
    /\ fetchLog' = Append(fetchLog, "ephemeris")
    /\ UNCHANGED <<almanac, launched, decodeSource, stream, linesRead, line, readFault,
                   killed, decReturn>>
    /\ UNCHANGED <<mainVars, queueVars, dispVars>>

\* almanac = get_almanac(destination="almanac.txt"); both None: return False
DecFetchAlmanac ==
    /\ mainPc = "decode"
    /\ decPc = "almanac"
    /\ \E got \in {None, "almanac.txt"} :
        /\ almanac' = got
        /\ IF got = None
           THEN decPc' = "returned" /\ decReturn' = "False"
           ELSE decPc' = "launch" /\ decReturn' = decReturn
    /\ fetchLog' = Append(fetchLog, "almanac")
    /\ UNCHANGED <<ephemeris, launched, decodeSource, stream, linesRead, line, readFault,
                   killed>>
    /\ UNCHANGED <<mainVars, queueVars, dispVars>>

\* A command line that names the ephemeris file without testing it.
DecodeCommandEphemerisOnly(type, eph, alm) ==
    IF type = "RS41" THEN <<"rs41mod">> ELSE <<"rs92mod", "-e", eph>>

\* The decoder at the end of decode_cmd.
DecodeCommand(type, eph, alm) ==
    IF type = "RS41" THEN <<"rs41mod">>
    ELSE IF eph # None THEN <<"rs92mod", "-e", eph>>
    ELSE IF alm # None THEN <<"rs92mod", "-a", alm>>
    ELSE <<>>

\* rx = subprocess.Popen(decode_cmd, ..., preexec_fn=os.setsid)
DecLaunch ==
    /\ mainPc = "decode"
    /\ decPc = "launch"
    /\ launched' = TRUE
    /\ decodeSource' = DecodeCommand(sonde_type, ephemeris, almanac)
    /\ stream' = "open"
    /\ decPc' = "read"
    /\ UNCHANGED <<ephemeris, almanac, fetchLog, linesRead, line, readFault, killed,
                   decReturn>>
    /\ UNCHANGED <<mainVars, queueVars, dispVars>>

\* line = rx.stdout.readline(): a line, "" at end of stream, or an I/O error.
DecRead ==
    /\ mainPc = "decode"
    /\ decPc = "read"
    /\ \/ /\ stream = "open"
          /\ linesRead < MaxLines
          /\ \E ln \in LinesAt(linesRead + 1) : line' = ln
          /\ linesRead' = linesRead + 1
          /\ decPc' = "process"
          /\ UNCHANGED <<stream, readFault>>
       \/ /\ stream \in {"open", "eof"}
          /\ stream' = "eof"
          /\ line' = <<>>
          /\ decPc' = "process"
          /\ UNCHANGED <<linesRead, readFault>>
       \/ /\ stream = "open"
          /\ readFault' = TRUE
          /\ decPc' = "except"
          /\ UNCHANGED <<stream, linesRead, line>>
    /\ UNCHANGED <<ephemeris, almanac, fetchLog, launched, decodeSource, killed, decReturn>>
    /\ UNCHANGED <<mainVars, queueVars, dispVars>>

\* if (line != None) and (line != ""): data = process_rs_line(line); ...
\* rx_queue.put_nowait(data) with Full swallowed; then back to the read.
DecProcess ==
    /\ mainPc = "decode"
    /\ decPc = "process"
    /\ LET d == IF line # <<>> THEN process_rs_line(line) ELSE NoneRec
       IN  IF d # NoneRec
           THEN LET r == put_nowait(internet_push_queue, Tagged(d, sonde_freq, sonde_type))
                IN  /\ internet_push_queue' = r.q
                    /\ putLog' = Append(putLog, [frame |-> d.frame, raised |-> r.raised])
           ELSE UNCHANGED <<internet_push_queue, putLog>>
    /\ line' = <<>>
    /\ decPc' = "read"
    /\ UNCHANGED <<ephemeris, almanac, fetchLog, launched, decodeSource, stream, linesRead,
                   readFault, killed, decReturn>>
    /\ UNCHANGED <<mainVars, taken, dispVars>>

\* An except clause that returns without signalling the process group.
DecExceptNoKill ==
    /\ mainPc = "decode"
    /\ decPc = "except"
    /\ decReturn' = "None"
    /\ decPc' = "returned"
    /\ UNCHANGED <<ephemeris, almanac, fetchLog, launched, decodeSource, stream, linesRead,
                   line, readFault, killed>>
    /\ UNCHANGED <<mainVars, queueVars, dispVars>>

\* except: os.killpg(os.getpgid(rx.pid), signal.SIGTERM); return
DecExcept ==
    /\ mainPc = "decode"
    /\ decPc = "except"
    /\ killed' = TRUE
    /\ stream' = "closed"
    /\ decReturn' = "None"
    /\ decPc' = "returned"
    /\ UNCHANGED <<ephemeris, almanac, fetchLog, launched, decodeSource, linesRead, line,
                   readFault>>
    /\ UNCHANGED <<mainVars, queueVars, dispVars>>

\* ------------------------------------------------------------------------
\* internet_push_thread.
\* ------------------------------------------------------------------------
\* while INTERNET_PUSH_RUNNING:
DispWhile ==
    /\ dispPc = "while"
    /\ dispPc' = IF INTERNET_PUSH_RUNNING THEN "get" ELSE "done"
    /\ UNCHANGED <<INTERNET_PUSH_RUNNING, data, dispLog>>
    /\ UNCHANGED <<mainVars, decVars, queueVars>>

\* data = internet_push_queue.get_nowait(); except: continue
DispGet ==
    /\ dispPc = "get"
    /\ LET r == get_nowait(internet_push_queue)
       IN  IF r.raised = "Empty"
           THEN /\ dispPc' = "while"
                /\ dispLog' = "poll_empty"
                /\ UNCHANGED <<internet_push_queue, taken, data>>
           ELSE /\ internet_push_queue' = r.q
                /\ data' = r.item
                /\ taken' = Append(taken, r.item.frame)
                /\ dispPc' = "push"
                /\ dispLog' = "poll_got"
    /\ UNCHANGED <<INTERNET_PUSH_RUNNING, putLog>>
    /\ UNCHANGED <<mainVars, decVars>>

\* The uploads, then time.sleep(config['upload_rate']).
DispUpload ==
    /\ dispPc = "push"
    /\ dispLog' = "sleep"
    /\ dispPc' = "while"
    /\ UNCHANGED <<INTERNET_PUSH_RUNNING, data>>
    /\ UNCHANGED <<mainVars, decVars, queueVars>>

\* ------------------------------------------------------------------------
\* The program.
\* ------------------------------------------------------------------------
MainStep ==
    \/ MainWhile \/ MainScan \/ MainScanCheck \/ MainReadFail \/ MainDetectPeaks \/ MainFor
    \/ MainAfterFor \/ MainCheck \/ MainStart \/ MainStop

DecStep == DecFetchEphemeris \/ DecFetchAlmanac \/ DecLaunch \/ DecRead \/ DecProcess \/ DecExcept

DispStep == DispWhile \/ DispGet \/ DispUpload

Next == MainStep \/ DecStep \/ DispStep

Spec == Init /\ [][Next]_vars

\* The main thread and the upload thread are both scheduled by the
\* interpreter: neither is starved while it has a step to take.
FairSpec == Spec /\ WF_vars(MainStep \/ DecStep) /\ WF_vars(DispStep)

\* ------------------------------------------------------------------------
\* Properties.
\* ------------------------------------------------------------------------
\* The record the decoder is about to offer, if the line it holds parses.
OfferedRecord == Tagged(process_rs_line(line), sonde_freq, sonde_type)

\* C1: an offer made while a record is pending leaves that record in place,
\* drops the new one and reports the drop (Full is raised); a take removes
\* the pending record and hands it to the dispatcher; an offer made on the
\* empty queue succeeds and the offered record becomes the pending one.
C1_OfferAndTake ==
    [][ /\ (putLog' # putLog) =>
            LET e == putLog'[Len(putLog')]
            IN  IF Len(internet_push_queue) = 1
                THEN /\ internet_push_queue' = internet_push_queue
                     /\ e.raised = "Full"
                ELSE /\ internet_push_queue' = <<OfferedRecord>>
                     /\ e.frame = OfferedRecord.frame
                     /\ e.raised = "no"
        /\ (taken' # taken) =>
            /\ Len(internet_push_queue) = 1
            /\ internet_push_queue' = <<>>
            /\ data' = internet_push_queue[1]
      ]_vars

\* C1 witness: the first offer is pending, the second is dropped, the
\* dispatcher takes the first, and the third offer becomes the pending one.
C1_Witness ==
    /\ Len(putLog) = 3
    /\ putLog[1].raised = "no"
    /\ putLog[2].raised = "Full"
    /\ putLog[3].raised = "no"
    /\ taken = <<putLog[1].frame>>
    /\ Len(internet_push_queue) = 1
    /\ internet_push_queue[1].frame = putLog[3].frame

\* C2: the queue never holds more than one record, and whenever the decoder
\* holds a line to process its step (parse and offer) can be taken at once,
\* whatever the dispatcher is doing.
C2_BoundedNonBlocking ==
    /\ Len(internet_push_queue) <= 1
    /\ (mainPc = "decode" /\ decPc = "process") => ENABLED DecProcess

\* C2 witness: the decoder holds a record to offer while the slot is
\* occupied and the dispatcher is busy uploading / sleeping.
C2_Witness ==
    /\ decPc = "process"
    /\ line # <<>>
    /\ process_rs_line(line) # NoneRec
    /\ Len(internet_push_queue) = 1
    /\ dispPc = "push"

\* The index in pk of the peak with the i-th highest power.
PeakOfRank(pk, i) ==
    CHOOSE k \in DOMAIN pk : Cardinality({j \in DOMAIN pk : pk[j].p > pk[k].p}) = i - 1

\* C3: within a pass the classifier is called on the candidates in order of
\* descending power; every call before the last returned None; when the
\* loop is left with a type, sonde_freq / sonde_type are the first candidate
\* that classified and its type; and once a type is set there is no further
\* classifier call, no further scan, and the outcome does not change.
C3_FirstClassifiedWins ==
    /\ [](mainPc \in {"for", "afterfor"} =>
            /\ Len(tried) <= Len(peaks)
            /\ \A i \in DOMAIN tried :
                 tried[i].f = quantize_one(RawFreqs[peaks[PeakOfRank(peaks, i)].f], quantization)
            /\ \A i \in 1..(Len(tried) - 1) : tried[i].t = None
            /\ (mainPc = "afterfor" =>
                  IF sonde_type # None
                  THEN /\ tried # <<>>
                       /\ tried[Len(tried)].t = sonde_type
                       /\ tried[Len(tried)].f = sonde_freq
                       /\ sonde_type \in {"RS41", "RS92"}
                  ELSE /\ Len(tried) = Len(peaks)
                       /\ \A i \in DOMAIN tried : tried[i].t = None))
    /\ [][sonde_type # None =>
            /\ sonde_type' = sonde_type
            /\ sonde_freq' = sonde_freq
            /\ nScans' = nScans
            /\ Len(tried') <= Len(tried)
            /\ mainPc' \notin {"while", "scan", "scanned", "read", "for"}]_vars

\* C3 witness: two ranked candidates on different frequencies, the first
\* classified None and the second RS41, and the outcome is the second.
C3_Witness ==
    /\ mainPc = "afterfor"
    /\ Len(tried) = 2
    /\ tried[1].t = None
    /\ tried[2].t = "RS41"
    /\ tried[1].f # tried[2].f
    /\ sonde_freq = tried[2].f
    /\ sonde_type = "RS41"

\* Every pass so far found zero peaks (no read failure, no pass with
\* peaks, no fatal scan exit), for a configured count of at least zero.
ZeroPeakRun ==
    /\ cfg_search_attempts >= 0
    /\ passLog \subseteq {"nopeaks"}
    /\ exitCode # 1

\* C4: when every scan yields zero peaks, no more than search_attempts scans
\* are made; the loop is left after exactly search_attempts scans with the
\* budget at zero and the process exits through the exhaustion exit; the
\* classifier, the decoder and the dispatcher are never used.
C4_ZeroPeaksExhausts ==
    ZeroPeakRun =>
        /\ nScans <= cfg_search_attempts
        /\ ~classifierUsed
        /\ sonde_type = None
        /\ decPc = "idle" /\ ~launched
        /\ dispPc = "idle"
        /\ mainPc \in {"while", "scan", "scanned", "read", "check", "exit"}
        /\ (mainPc \in {"check", "exit"} =>
              nScans = cfg_search_attempts /\ SEARCH_ATTEMPTS = 0)
        /\ (mainPc = "exit" => exitCode = 0)

\* C4 witness: the exhaustion exit after the largest configured count of
\* zero-peak passes.
C4_Witness ==
    /\ ZeroPeakRun
    /\ passLog = {"nopeaks"}
    /\ mainPc = "exit"
    /\ cfg_search_attempts = MaxAttempts
    /\ nScans = MaxAttempts

\* C5: when the budget is at zero and no candidate has classified, the main
\* thread is at the loop test, at the exhaustion test or has exited with
\* status 0, its next step from the exhaustion test is sys.exit(0), and no
\* dispatcher and no decoder was started.
C5_ExhaustedExitsZero ==
    /\ []((SEARCH_ATTEMPTS = 0 /\ sonde_type = None) =>
            /\ mainPc \in {"while", "check", "exit"}
            /\ (mainPc = "exit" => exitCode = 0)
            /\ dispPc = "idle"
            /\ decPc = "idle" /\ ~launched)
    /\ [][(SEARCH_ATTEMPTS = 0 /\ sonde_type = None /\ mainPc # "exit") =>
            \/ mainPc = "while" /\ mainPc' = "check"
            \/ mainPc = "check" /\ mainPc' = "exit" /\ exitCode' = 0]_vars

\* C5 witness: the budget was spent by failed passes and the process has
\* exited with status 0.
C5_Witness ==
    /\ cfg_search_attempts > 0
    /\ SEARCH_ATTEMPTS = 0
    /\ sonde_type = None
    /\ mainPc = "exit"
    /\ exitCode = 0
    /\ classifierUsed

\* C6: when the scan tool reports a failure (it does not end with exit
\* status 0), the next step of the main thread is sys.exit(1): no artifact
\* is read and nothing else runs after that scan.
C6_ScanFailureIsFatal ==
    [][(mainPc = "scanned" /\ ToolFailed(scanStatus)) =>
          (mainPc' = "exit" /\ exitCode' = 1)]_vars

\* C7: once the decoder's output stream is at end-of-stream, the supervisor
\* eventually signals the process group and returns.
C7_EofEndsSupervisor ==
    (stream = "eof") ~> (killed /\ decPc = "returned")

\* C8: after a read raised an I/O error the supervisor is in its except
\* clause or has returned, it has signalled the process group by the time
\* it has returned, and from the fault on no line is read and no record is
\* offered.
C8_ReadFaultFailsFast ==
    /\ [](readFault =>
            /\ decPc \in {"except", "returned"}
            /\ (decPc = "returned" => killed /\ decReturn = "None"))
    /\ [][readFault =>
            /\ linesRead' = linesRead
            /\ putLog' = putLog
            /\ internet_push_queue' = internet_push_queue
               \/ Len(internet_push_queue') < Len(internet_push_queue)
            /\ decPc' \in {"except", "returned"}]_vars

\* C8 witness: a read faulted after records had been offered, and the
\* supervisor has signalled the group and returned.
C8_Witness ==
    /\ readFault
    /\ killed
    /\ decPc = "returned"
    /\ Len(putLog) > 0

\* C9: for an RS92 the ephemeris fetch comes first and the almanac fetch
\* only after a failed ephemeris fetch; with both failed decode_rs92 returns
\* False without launching the decoder and nothing is ever offered; a
\* launched decoder is given the source that succeeded, the ephemeris when
\* there is one, else the almanac.
C9_AuxiliaryDataPolicy ==
    (sonde_type = "RS92" /\ decPc # "idle") =>
        /\ fetchLog \in {<<>>, <<"ephemeris">>, <<"ephemeris", "almanac">>}
        /\ (decPc # "ephemeris" => Len(fetchLog) >= 1)
        /\ (Len(fetchLog) = 2 => ephemeris = None)
        /\ (ephemeris # None => Len(fetchLog) = 1 /\ almanac = None)
        /\ ((Len(fetchLog) = 2 /\ almanac = None) =>
              /\ decPc = "returned"
              /\ decReturn = "False"
              /\ ~launched
              /\ stream = "none"
              /\ putLog = <<>>)
        /\ (launched =>
              decodeSource = IF ephemeris # None
                             THEN <<"rs92mod", "-e", "ephemeris.dat">>
                             ELSE <<"rs92mod", "-a", "almanac.txt">>)
        /\ (launched => (ephemeris # None \/ almanac # None))

\* C9 witness: the ephemeris fetch failed, the almanac fetch succeeded, and
\* the decoder launched with the almanac has produced a record.
C9_Witness ==
    /\ sonde_type = "RS92"
    /\ fetchLog = <<"ephemeris", "almanac">>
    /\ launched
    /\ decodeSource = <<"rs92mod", "-a", "almanac.txt">>
    /\ Len(putLog) > 0

\* C10: once the supervisor's run has ended, the upload thread eventually
\* leaves its loop.
C10_DispatcherStops ==
    (mainPc = "decode" /\ decPc = "returned") ~> (dispPc = "done")

\* C10 witness: decode_rs92 returned False for want of auxiliary data and
\* the upload thread has ended.
C10_Witness ==
    /\ decReturn = "False"
    /\ decPc = "returned"
    /\ dispPc = "done"

\* C11: whenever the upload thread or a decoder has been started, the
\* search has ended with a transmitter of type RS41 or RS92; while the
\* search runs, and after it ended without a transmitter, neither exists.
C11_TasksOnlyAfterFound ==
    (dispPc # "idle" \/ decPc # "idle" \/ launched) =>
        /\ sonde_type \in {"RS41", "RS92"}
        /\ mainPc \in {"decode", "end"}

\* The line held by the decoder has at least eleven fields, an integer
\* frame field and six numeric fields (lat, lon, alt, vel_h, heading, vel_v).
WellFormedLine(ln) ==
    /\ Len(ln) >= MinFields
    /\ \E n \in IntRange : ToString(n) = ln[1]
    /\ \A i \in 5..10 : float_ok(ln[i])

\* The keys of a complete record as process_rs_line builds it.
FrameKeys == {"frame", "id", "date", "time", "lat", "lon", "alt", "vel_h", "heading",
              "vel_v", "crc", "temp", "humidity"}

\* C12: process_rs_line gives a record exactly for the lines with at least
\* eleven fields whose coercions all succeed, and that record is complete
\* and carries the values of the line's fields; for any other line it gives
\* None; the decoder's step on a line never ends in the except clause, and
\* a record is offered only for a well-formed line.
C12_ParserAllOrNothing ==
    /\ []((decPc = "process" /\ line # <<>>) =>
            LET d == process_rs_line(line)
            IN  IF WellFormedLine(line)
                THEN /\ DOMAIN d = FrameKeys
                     /\ ToString(d.frame) = line[1]
                     /\ d.id = line[2] /\ d.date = line[3] /\ d.time = line[4]
                     /\ d.lat = float_of(line[5]) /\ d.lon = float_of(line[6])
                     /\ d.alt = float_of(line[7]) /\ d.vel_h = float_of(line[8])
                     /\ d.heading = float_of(line[9]) /\ d.vel_v = float_of(line[10])
                     /\ d.crc = line[11]
                ELSE d = NoneRec)
    /\ [][(decPc = "process" /\ decPc' # "process") =>
            /\ decPc' = "read"
            /\ readFault' = readFault
            /\ (putLog' # putLog) <=> (line # <<>> /\ WellFormedLine(line))
            /\ (putLog' = putLog => internet_push_queue' = internet_push_queue)
            /\ \A i \in DOMAIN internet_push_queue' :
                  DOMAIN internet_push_queue'[i] = FrameKeys \cup {"freq", "type"}]_vars

\* C12 witness: a malformed line (short, or with a field that does not convert) was read and processed
\* after a well-formed line had been offered: one offer, two lines read.
C12_Witness ==
    /\ linesRead = 2
    /\ decPc = "read"
    /\ Len(putLog) = 1
    /\ putLog[1].frame = 1

\* The index of the most recent offer the queue accepted.
LastAccepted == CHOOSE i \in DOMAIN putLog :
                    /\ putLog[i].raised = "no"
                    /\ \A j \in DOMAIN putLog : (j > i) => putLog[j].raised = "Full"

\* The number of offers the queue accepted.
AcceptedCount == Cardinality({i \in DOMAIN putLog : putLog[i].raised = "no"})

\* C13 as stated: the record obtained at a poll is the most recent record
\* the decoder has offered up to that poll.
C13_TakesMostRecentOffered ==
    [][(taken' # taken) =>
          taken'[Len(taken')] = putLog[Len(putLog)].frame]_vars

\* C13 amended: the record obtained at a poll is the most recent record the
\* queue accepted; every record offered after it, while it was pending, was
\* dropped, and every accepted record is either pending or was obtained.
C13_TakesPendingRecord ==
    /\ [](AcceptedCount = Len(taken) + Len(internet_push_queue))
    /\ [][(taken' # taken) =>
            /\ \E i \in DOMAIN putLog : putLog[i].raised = "no"
            /\ taken'[Len(taken')] = putLog[LastAccepted].frame
            /\ data'.frame = putLog[LastAccepted].frame]_vars

\* C13 witness: the dispatcher obtained record 1 after record 2 had been
\* offered and dropped.
C13_Witness ==
    /\ Len(putLog) = 2
    /\ putLog[1].raised = "no"
    /\ putLog[2].raised = "Full"
    /\ taken = <<putLog[1].frame>>
    /\ data.frame = putLog[1].frame

\* C14: within one pass of the search loop no quantized frequency is handed
\* to detect_sonde more than once.
C14_OneCallPerFrequency ==
    \A i, j \in DOMAIN tried : (i # j) => tried[i].f # tried[j].f

\* C15 as stated: in a search whose scans all yield zero peaks, the sleep
\* that ends a pass lasts the configured search_delay.
C15_ZeroPeakSleepsSearchDelay ==
    [][(passLog' = {"nopeaks"} /\ SEARCH_ATTEMPTS' # SEARCH_ATTEMPTS) =>
          lastSleep' = search_delay]_vars

\* C15 amended: in a search whose scans all yield zero peaks, the sleep that
\* ends a pass lasts the fixed ten seconds, whatever search_delay is.
C15_ZeroPeakSleepsFixedBackoff ==
    /\ []((passLog = {"nopeaks"}) => (lastSleep = FixedBackoff /\ lastSleep # search_delay))
    /\ [][(passLog' = {"nopeaks"} /\ SEARCH_ATTEMPTS' # SEARCH_ATTEMPTS) =>
            lastSleep' = FixedBackoff]_vars

\* C15 witness: the second scan of a search whose first scan gave zero
\* peaks is about to start, the sleep between the two being over.
C15_Witness ==
    /\ passLog = {"nopeaks"}
    /\ mainPc = "scan"
    /\ nScans = 1
    /\ lastSleep = FixedBackoff

\* C16: every failed pass takes exactly one from the budget and sleeps
\* before the loop test: ten seconds after a failed read of the scan and
\* after a pass with zero peaks, search_delay after a pass whose candidates
\* all classified as None; the budget changes in no other way, and while
\* budget remains the step after the loop test is the next scan.
C16_FailedPassBacksOff ==
    [][/\ (mainPc = "read" /\ mainPc' # "read" /\ mainPc' # "for") =>
            /\ SEARCH_ATTEMPTS' = SEARCH_ATTEMPTS - 1
            /\ lastSleep' = FixedBackoff
            /\ mainPc' = "while"
            /\ passLog' \ passLog \subseteq {"readfail", "nopeaks"}
       /\ (mainPc = "afterfor" /\ mainPc' # "afterfor" /\ sonde_type = None) =>
            /\ SEARCH_ATTEMPTS' = SEARCH_ATTEMPTS - 1
            /\ lastSleep' = search_delay
            /\ mainPc' = "while"
       /\ (SEARCH_ATTEMPTS' # SEARCH_ATTEMPTS) =>
            /\ SEARCH_ATTEMPTS' = SEARCH_ATTEMPTS - 1
            /\ mainPc \in {"read", "afterfor"}
            /\ sonde_type' = None
       /\ (lastSleep' # lastSleep) => (SEARCH_ATTEMPTS' # SEARCH_ATTEMPTS)
       /\ (mainPc = "while" /\ mainPc' # "while" /\ SEARCH_ATTEMPTS > 0) =>
            (mainPc' = "scan" /\ exitCode' = exitCode)]_vars

\* C16 witness: after a pass whose candidates all classified as None the
\* budget is one lower, the configured delay was slept and the next scan is
\* about to start.
C16_Witness ==
    /\ mainPc = "scan"
    /\ nScans = 1
    /\ passLog = {"peaks"}
    /\ classifierUsed
    /\ lastSleep = search_delay
    /\ SEARCH_ATTEMPTS = cfg_search_attempts - 1
    /\ SEARCH_ATTEMPTS > 0

\* C17: in a run that found a transmitter, every poll of the queue but the
\* first follows a sleep of the upload thread, the poll before it having
\* found the queue empty or not.
C17_SleepBetweenPolls ==
    [][(sonde_type \in {"RS41", "RS92"} /\ dispPc = "get" /\ dispPc' # "get") =>
          dispLog \in {"none", "sleep"}]_vars

\* The attempt count read as a number of scans: none for a count below one.
ScanBudget == IF cfg_search_attempts > 0 THEN cfg_search_attempts ELSE 0

\* C18: the number of scans never exceeds the configured attempt count, the
\* budget never goes below zero when the configured count is not negative,
\* and once the search loop is over the outcome is Found (a type RS41 or
\* RS92 is set), Exhausted (exit status 0 with the budget at zero and no
\* type) or the fatal scan exit (exit status 1).
C18_SearchEndsFoundOrExhausted ==
    /\ nScans <= ScanBudget
    /\ (cfg_search_attempts >= 0 => SEARCH_ATTEMPTS >= 0)
    /\ (mainPc \in {"start", "decode", "end"} => sonde_type \in {"RS41", "RS92"})
    /\ (mainPc = "exit" =>
          \/ exitCode = RtlPowerFailCode
          \/ (exitCode = 0 /\ sonde_type = None /\ SEARCH_ATTEMPTS = 0))

\* C19: a classified transmitter leaves the budget as it was and above
\* zero, is never followed by an exit of the process, and the steps after
\* it are the exhaustion test, the start of the upload thread and the call
\* of the decoder for its type; Found and the exhaustion exit exclude each
\* other.
C19_FoundLeadsToDecoding ==
    /\ [](sonde_type # None =>
            /\ sonde_type \in {"RS41", "RS92"}
            /\ SEARCH_ATTEMPTS > 0
            /\ exitCode = 0 - 1
            /\ mainPc \in {"afterfor", "check", "start", "decode", "end"})
    /\ [](exitCode = 0 => sonde_type = None)
    /\ [][(sonde_type' # None) => SEARCH_ATTEMPTS' = SEARCH_ATTEMPTS]_vars
    /\ [][(sonde_type # None /\ mainPc = "afterfor" /\ mainPc' # "afterfor") =>
            mainPc' = "check"]_vars
    /\ [][(sonde_type # None /\ mainPc = "check" /\ mainPc' # "check") =>
            mainPc' = "start"]_vars
    /\ [][(sonde_type # None /\ mainPc = "start" /\ mainPc' # "start") =>
            /\ mainPc' = "decode"
            /\ dispPc' = "while"
            /\ decPc' = (IF sonde_type = "RS92" THEN "ephemeris" ELSE "launch")]_vars

\* C19 witness: a transmitter classified on the last attempt of the largest
\* budget, its decoder launched.
C19_Witness ==
    /\ cfg_search_attempts = MaxAttempts
    /\ nScans = MaxAttempts
    /\ SEARCH_ATTEMPTS = 1
    /\ sonde_type \in {"RS41", "RS92"}
    /\ mainPc = "decode"
    /\ launched

\* The frame numbers of the records the decoder parsed and offered, in the
\* order of their emission.
OfferedFrames == [i \in DOMAIN putLog |-> putLog[i].frame]

RECURSIVE IsSubSeq(_, _)
\* s is t with some elements left out.
IsSubSeq(s, t) ==
    IF s = <<>> THEN TRUE
    ELSE IF t = <<>> THEN FALSE
    ELSE IF Head(s) = Head(t) THEN IsSubSeq(Tail(s), Tail(t))
    ELSE IsSubSeq(s, Tail(t))

\* C20: the records the upload thread has taken are, in order, a
\* subsequence of the records the decoder parsed and offered: none is taken
\* twice, none is taken that was not offered, and a record taken later was
\* emitted later.
C20_TakenIsSubsequence ==
    /\ IsSubSeq(taken, OfferedFrames)
    /\ \A i, j \in DOMAIN OfferedFrames : (i < j) => OfferedFrames[i] < OfferedFrames[j]
    /\ \A i, j \in DOMAIN taken : (i < j) => taken[i] < taken[j]
    /\ \A i \in DOMAIN taken :
          \E k \in DOMAIN putLog : putLog[k].frame = taken[i] /\ putLog[k].raised = "no"
    /\ (data # NoneRec => Len(taken) > 0 /\ data.frame = taken[Len(taken)])

\* C20 witness: three records emitted, the second dropped, the first and
\* the third taken in that order.
C20_Witness ==
    /\ Len(putLog) = 3
    /\ putLog[2].raised = "Full"
    /\ taken = <<putLog[1].frame, putLog[3].frame>>

====
